---- MODULE Spec2Model ----
(***************************************************************************)
(* The matcher of fzf (src/matcher.go): the request loop, the merger cache, *)
(* the scan supervisor and its worker goroutines, as one state machine.     *)
(*                                                                          *)
(* One action is one step of one thread: the callers of Reset and Stop, the *)
(* Loop goroutine (Wait, the cache decision, scan's supervisor loop, the    *)
(* publication) and every worker goroutine spawned by scan.                 *)
(*                                                                          *)
(* Requests carry the number of the Reset call that made them (id); mergers *)
(* carry the request they were built for. The tac flag, the index range of  *)
(* a merger and scan's matchCount, which decide nothing here, are left out. *)
(***************************************************************************)
EXTENDS Naturals, Integers, Sequences, FiniteSets, TLC

\* ------------------------------------------------------------------ bounds
\* Number of calls of Reset in a behaviour.
MaxRequests == 2
\* Longest chunk list of a request.
MaxChunks == 3
\* m.partitions, fixed by NewMatcher from the number of CPUs.
NumPartitions == 2
\* In how many fields a submitted request differs from BaseRequest.
MaxChanges == 1
\* Longest chunk list and largest partition count sliceChunks is applied to
\* on its own.
MaxSliceChunks == 9
MaxSlicePartitions == 6

\* ------------------------------------------------------------ collaborators
\* A revision is {major, minor}; two revisions are compatible when they are
\* of the same major generation.
Revisions == { [major |-> 0, minor |-> 0],
               [major |-> 0, minor |-> 1],
               [major |-> 1, minor |-> 0] }

compatible(r, other) == r.major = other.major

\* A pattern is identified by its query string.
Patterns == { "", "a" }

AsString(pattern) == pattern

IsEmpty(pattern) == pattern = ""

sortable(pattern) == pattern # ""

\* A chunk is named by its position in the item store and holds one item.
ChunkList(n) == [i \in 1..n |-> i]

CountItems(chunks) == Len(chunks)

\* pattern.Match(chunk, slab): the results of one chunk.
Match(pattern, chunk) == << chunk >>

\* sort.Sort(ByRelevance(sliceMatches)): the relevance rank of a result is
\* opaque to the matcher; here a result from a later chunk ranks first.
RECURSIVE Insert(_, _)
Insert(x, sorted) ==
    IF sorted = << >> THEN << x >>
    ELSE IF x >= Head(sorted) THEN << x >> \o sorted
    ELSE << Head(sorted) >> \o Insert(x, Tail(sorted))

RECURSIVE ByRelevance(_)
ByRelevance(matches) ==
    IF matches = << >> THEN << >>
    ELSE Insert(Head(matches), ByRelevance(Tail(matches)))

\* The nil *Merger.
NilMerger ==
    [kind |-> "nil", req |-> 0, sort |-> FALSE, query |-> "",
     lists |-> << >>, sorted |-> FALSE, revision |-> [major |-> 0, minor |-> 0], count |-> 0,
     cacheable |-> FALSE, final |-> FALSE]

\* The zero MatchRequest of `var request MatchRequest`.
NoRequest == [id |-> 0]

\* The mergers record, beside their content, the request they were built
\* for (req), its sort flag (sort), its pattern string (query) and its item
\* count (count).
EmptyMerger(request) ==
    [kind |-> "empty", req |-> request.id, sort |-> request.sort,
     query |-> AsString(request.pattern), lists |-> << >>,
     sorted |-> FALSE, revision |-> request.revision,
     count |-> CountItems(request.chunks), cacheable |-> FALSE,
     final |-> FALSE]

PassMerger(request, c) ==
    [kind |-> "pass", req |-> request.id, sort |-> request.sort,
     query |-> AsString(request.pattern), lists |-> << request.chunks >>,
     sorted |-> FALSE, revision |-> request.revision,
     count |-> CountItems(request.chunks), cacheable |-> c,
     final |-> FALSE]

NewMerger(request, partialResults, sorted, c) ==
    [kind |-> "scan", req |-> request.id, sort |-> request.sort,
     query |-> AsString(request.pattern), lists |-> partialResults,
     sorted |-> sorted, revision |-> request.revision,
     count |-> CountItems(request.chunks), cacheable |-> c,
     final |-> FALSE]

\* merger.cacheable(): decided by the number of matches, which is fixed when
\* the merger is built.
cacheable(mg) == mg.cacheable

\* ------------------------------------------------------------------- state
VARIABLES
    reqBox,        \* m.reqBox: the pending events, kind -> payload
    eventBox,      \* m.eventBox: the last payload set under each kind
    submitted,     \* number of calls of Reset so far
    pc,            \* where the Loop goroutine is
    request,       \* Loop's local request
    msort,         \* m.sort
    mrevision,     \* m.revision
    mergerCache,   \* m.mergerCache: pattern string -> merger
    prevCount,     \* Loop's local prevCount
    chunkCacheClears, \* whether m.cache.Clear() ran in the current cycle
    cacheCleared,  \* Loop's local cacheCleared
    cacheHit,      \* whether line 106 assigned merger in the current cycle
    merger,        \* Loop's local merger
    cancelled,     \* Loop's local cancelled
    last,          \* the previous cycle: its request and how it ended
    slab,          \* m.slab: which slots are allocated
    scans,         \* the objects shared by a call of scan and its workers:
                   \* cancelled, waitGroup, countChan, resultChan
    slices,        \* scan's local slices
    count,         \* scan's local count
    received,      \* iterations done of the loop at line 236
    partialResults,\* scan's local partialResults
    workers        \* the live worker goroutines

vars == << reqBox, eventBox, submitted, pc, request, msort, mrevision,
           mergerCache, prevCount, chunkCacheClears, cacheCleared, cacheHit,
           merger, cancelled, last, slab, scans, slices, count, received,
           partialResults, workers >>

engineVars == << msort, mrevision, mergerCache, prevCount, chunkCacheClears,
                 cacheCleared, cacheHit >>

superVars == << slices, count, received, partialResults >>

EmptyBox == [t \in {} |-> NoRequest]

\* util.EventBox.Set: overwrite the payload queued under the kind.
BoxSet(box, t, val) ==
    [k \in (DOMAIN box) \cup {t} |-> IF k = t THEN val ELSE box[k]]

\* util.EventBox.Peek
Peek(box, t) == t \in DOMAIN box

\* The request the submitted ones are variations of; the engine is built
\* with its revision (NewMatcher's revision) and with either sort flag.
BaseRequest ==
    [chunks |-> ChunkList(MaxChunks), pattern |-> "a", final |-> FALSE,
     sort |-> TRUE, revision |-> [major |-> 0, minor |-> 0]]

Bit(b) == IF b THEN 1 ELSE 0

Changes(r) ==
    Bit(r.chunks # BaseRequest.chunks) + Bit(r.pattern # BaseRequest.pattern)
    + Bit(r.final # BaseRequest.final) + Bit(r.sort # BaseRequest.sort)
    + Bit(r.revision # BaseRequest.revision)

\* The requests submitted: those within MaxChanges fields of BaseRequest,
\* and the one with no chunks and the empty pattern.
Requests ==
    { r \in [chunks : { ChunkList(n) : n \in 0..MaxChunks },
             pattern : Patterns, final : BOOLEAN, sort : BOOLEAN,
             revision : Revisions] :
        \/ Changes(r) <= MaxChanges
        \/ /\ r.chunks = << >>
           /\ IsEmpty(r.pattern)
           /\ Changes(r) = 2 }

NoCycle == [request |-> NoRequest, outcome |-> "none", cacheable |-> FALSE]

Init ==
    /\ reqBox = EmptyBox
    /\ eventBox = EmptyBox
    /\ submitted = 0
    /\ pc = "wait"
    /\ request = NoRequest
    /\ msort \in BOOLEAN
    /\ mrevision = BaseRequest.revision
    /\ mergerCache = EmptyBox
    /\ prevCount = 0
    /\ chunkCacheClears = FALSE
    /\ cacheCleared = FALSE
    /\ cacheHit = FALSE
    /\ merger = NilMerger
    /\ cancelled = FALSE
    /\ last = NoCycle
    /\ slab = [i \in 0..(NumPartitions - 1) |-> FALSE]
    /\ scans = EmptyBox
    /\ slices = EmptyBox
    /\ count = 0
    /\ received = 0
    /\ partialResults = EmptyBox
    /\ workers = {}

\* ----------------------------------------------------------------- callers
Reset(r, cancel) ==
    /\ submitted < MaxRequests
    /\ submitted' = submitted + 1
    /\ LET event == IF cancel THEN "reqReset" ELSE "reqRetry"
           val == [id |-> submitted + 1, chunks |-> r.chunks,
                   pattern |-> r.pattern, final |-> r.final, sort |-> r.sort,
                   revision |-> r.revision]
       IN reqBox' = BoxSet(reqBox, event, val)
    /\ UNCHANGED << eventBox, pc, request, merger, cancelled, last, slab,
                    scans, workers, engineVars, superVars >>

Stop ==
    /\ reqBox' = BoxSet(reqBox, "reqQuit", NoRequest)
    /\ UNCHANGED << eventBox, submitted, pc, request, merger, cancelled, last,
                    slab, scans, workers, engineVars, superVars >>

\* -------------------------------------------------------------------- Loop
\* The orders in which `range *events` can visit the pending kinds: the
\* iteration order of a Go map is unspecified.
RangeOrders(events) ==
    { o \in [1..Cardinality(DOMAIN events) -> DOMAIN events] :
        \A i, j \in DOMAIN o : i # j => o[i] # o[j] }

\* The callback given to reqBox.Wait, after it has visited o[1..n].
RECURSIVE Handler(_, _, _)
Handler(events, o, n) ==
    IF n = 0 THEN [stop |-> FALSE, request |-> NoRequest]
    ELSE LET before == Handler(events, o, n - 1)
         IN IF before.stop THEN before
            ELSE IF o[n] = "reqQuit"
                 THEN [stop |-> TRUE, request |-> before.request]
                 ELSE [stop |-> FALSE, request |-> events[o[n]]]

\* Mutant of LoopStops: the Loop goes on when the callback has seen a
\* request before the quit event.
LoopStopsIfIdle(stop, req) == stop /\ req = NoRequest

\* Line 81.
LoopStops(stop, req) == stop

LoopWait ==
    /\ pc = "wait"
    /\ DOMAIN reqBox # {}
    /\ \E o \in RangeOrders(reqBox) :
         LET h == Handler(reqBox, o, Cardinality(DOMAIN reqBox))
         IN /\ request' = h.request
            /\ reqBox' = IF h.stop THEN reqBox ELSE EmptyBox
            /\ pc' = IF LoopStops(h.stop, h.request) THEN "stopped"
                     ELSE "process"
    /\ UNCHANGED << eventBox, submitted, merger, cancelled, last, slab, scans,
                    workers, engineVars, superVars >>

\* Mutant of ClearsChunkCache: Clear() without the compatibility test.
ClearsOnAnyChange(req, oldRevision) == TRUE

\* Lines 88-90: m.revision is assigned before it is compared.
ClearsChunkCache(req, oldRevision) ==
    LET m_revision == req.revision
    IN ~compatible(req.revision, m_revision)

\* Mutant of Lookup: the final flag of the cached merger is not compared.
LookupAnyFinal(cache, patternString, final) ==
    IF patternString \in DOMAIN cache THEN cache[patternString]
    ELSE NilMerger

\* Line 105.
Lookup(cache, patternString, final) ==
    IF patternString \in DOMAIN cache /\ cache[patternString].final = final
    THEN cache[patternString]
    ELSE NilMerger

\* Mutant of SortOrRevisionChanged: a change of the sort flag goes unnoticed.
RevisionChanged(req, sort, revision) == req.revision # revision

\* Line 86.
SortOrRevisionChanged(req, sort, revision) ==
    req.sort # sort \/ req.revision # revision

LoopProcess ==
    /\ pc = "process"
    /\ LET changed == SortOrRevisionChanged(request, msort, mrevision)
           patternString == AsString(request.pattern)
           cnt == CountItems(request.chunks)
           found == IF ~changed /\ cnt = prevCount
                    THEN Lookup(mergerCache, patternString, request.final)
                    ELSE NilMerger
       IN /\ msort' = IF changed THEN request.sort ELSE msort
          /\ mrevision' = IF changed THEN request.revision ELSE mrevision
          /\ chunkCacheClears' =
                 (changed /\ ClearsChunkCache(request, mrevision))
          /\ cacheCleared' = changed
          /\ prevCount' = IF ~changed /\ cnt # prevCount THEN cnt
                          ELSE prevCount
          /\ mergerCache' = IF changed \/ cnt # prevCount THEN EmptyBox
                            ELSE mergerCache
          /\ merger' = found
          /\ cacheHit' = (found # NilMerger)
          /\ cancelled' = FALSE
          /\ pc' = IF found # NilMerger THEN "finish" ELSE "scan"
    /\ UNCHANGED << reqBox, eventBox, submitted, request, last, slab, scans,
                    workers, superVars >>

\* Mutant of Publishes: line 119 without the test of cancelled.
PublishesAlways(isCancelled) == TRUE

\* Line 119.
Publishes(isCancelled) == ~isCancelled

\* Lines 119-125, and the locals of the next iteration.
LoopFinish ==
    /\ pc = "finish"
    /\ LET patternString == AsString(request.pattern)
           published == [merger EXCEPT !.final = request.final]
       IN IF Publishes(cancelled)
          THEN /\ mergerCache' =
                     IF cacheable(merger)
                     THEN BoxSet(mergerCache, patternString, published)
                     ELSE mergerCache
               /\ eventBox' = BoxSet(eventBox, "EvtSearchFin", published)
          ELSE UNCHANGED << mergerCache, eventBox >>
    /\ last' = [request |-> request,
                outcome |-> IF cancelled THEN "cancelled"
                            ELSE IF cacheHit THEN "cached" ELSE "scanned",
                cacheable |-> cacheable(merger)]
    /\ pc' = "wait"
    /\ request' = NoRequest
    /\ merger' = NilMerger
    /\ cancelled' = FALSE
    /\ cacheCleared' = FALSE
    /\ cacheHit' = FALSE
    /\ chunkCacheClears' = FALSE
    /\ UNCHANGED << reqBox, submitted, msort, mrevision, prevCount, slab,
                    scans, workers, superVars >>

\* -------------------------------------------------------------------- scan
\* Mutant of sliceChunksOf: the last slice is cut like the others.
sliceChunksEvenly(chunks, mpartitions) ==
    LET perSlice0 == Len(chunks) \div mpartitions
        partitions == IF perSlice0 = 0 THEN Len(chunks) ELSE mpartitions
        perSlice == IF perSlice0 = 0 THEN 1 ELSE perSlice0
    IN [i \in 0..(partitions - 1) |->
          SubSeq(chunks, i * perSlice + 1, i * perSlice + perSlice)]

\* Lines 129-148, for an engine of mpartitions partitions.
sliceChunksOf(chunks, mpartitions) ==
    LET perSlice0 == Len(chunks) \div mpartitions
        partitions == IF perSlice0 = 0 THEN Len(chunks) ELSE mpartitions
        perSlice == IF perSlice0 = 0 THEN 1 ELSE perSlice0
    IN [i \in 0..(partitions - 1) |->
          LET start == i * perSlice
              end == IF i = partitions - 1 THEN Len(chunks)
                     ELSE start + perSlice
          IN SubSeq(chunks, start + 1, end)]

sliceChunks(chunks) == sliceChunksOf(chunks, NumPartitions)

\* The scan objects still referenced: by their workers, or by the call of
\* scan that is running (id `running`, 0 when scan has returned).
Referenced(objs, ws, running) ==
    [s \in { t \in DOMAIN objs : t = running \/ \E w \in ws : w.scan = t }
       |-> objs[s]]

\* Mutant of CountChanCap: a progress channel with room for one tick.
CountChanCapOne(numChunks) == 1

\* Line 174: make(chan int, numChunks).
CountChanCap(numChunks) == numChunks

\* Mutant of SlabSlot: every worker is given the first slot.
SlabSlotFirst(idx) == 0

\* Line 207: the worker of partition idx is given m.slab[idx].
SlabSlot(idx) == idx

\* Mutant of FastPath: the pattern is tested before the number of chunks.
FastPathPatternFirst(numChunks, pattern) ==
    IF IsEmpty(pattern) THEN "pass"
    ELSE IF numChunks = 0 THEN "empty"
    ELSE "none"

\* Lines 158-165: which of scan's early returns is taken.
FastPath(numChunks, pattern) ==
    IF numChunks = 0 THEN "empty"
    ELSE IF IsEmpty(pattern) THEN "pass"
    ELSE "none"

\* Lines 155-208: the fast paths, or the workers' start.
ScanStart ==
    /\ pc = "scan"
    /\ LET numChunks == Len(request.chunks)
           path == FastPath(numChunks, request.pattern)
       IN IF path = "empty"
          THEN /\ merger' = EmptyMerger(request)
               /\ pc' = "finish"
               /\ slices' = EmptyBox
               /\ UNCHANGED << slab, scans, workers >>
          ELSE IF path = "pass"
          THEN /\ \E c \in BOOLEAN : merger' = PassMerger(request, c)
               /\ pc' = "finish"
               /\ slices' = EmptyBox
               /\ UNCHANGED << slab, scans, workers >>
          ELSE LET numSlices == Cardinality(DOMAIN slices')
               IN /\ slices' = sliceChunks(request.chunks)
                  /\ scans' = BoxSet(scans, request.id,
                                [cancelled |-> FALSE,
                                 waitGroup |-> numSlices,
                                 countChan |-> << >>,
                                 countCap |-> CountChanCap(numChunks),
                                 resultChan |-> << >>,
                                 resultCap |-> numSlices])
                  /\ slab' = [i \in DOMAIN slab |->
                                slab[i] \/ i \in DOMAIN slices']
                  /\ workers' = workers \cup
                        { [scan |-> request.id, idx |-> i,
                           slot |-> SlabSlot(i),
                           pattern |-> request.pattern,
                           chunks |-> slices'[i], allMatches |-> << >>,
                           pc |-> "match"] : i \in DOMAIN slices' }
                  /\ merger' = NilMerger
                  /\ pc' = "collect"
    /\ cancelled' = FALSE
    /\ count' = 0
    /\ received' = 0
    /\ partialResults' = EmptyBox
    /\ UNCHANGED << reqBox, eventBox, submitted, request, last, engineVars >>

\* ----------------------------------------------------------------- workers
Step(w, w2) == (workers \ {w}) \cup {w2}

\* Mutant of CancelledGet: the worker does not see the flag.
CancelledGetNever(flag) == FALSE

\* Line 190: cancelled.Get().
CancelledGet(flag) == flag

\* Lines 187-192: score the next chunk of the slice, then read the flag.
WorkerMatch(w) ==
    /\ w.pc = "match"
    /\ LET chunk == w.chunks[Len(w.allMatches) + 1]
           matches == Match(w.pattern, chunk)
       IN workers' = Step(w, [w EXCEPT
              !.allMatches = Append(@, matches),
              !.pc = IF CancelledGet(scans[w.scan].cancelled) THEN "done"
                     ELSE "tick"])
    /\ UNCHANGED << reqBox, eventBox, submitted, pc, request, merger,
                    cancelled, last, slab, scans, engineVars, superVars >>

\* Line 193.
WorkerTick(w) ==
    /\ w.pc = "tick"
    /\ Len(scans[w.scan].countChan) < scans[w.scan].countCap
    /\ scans' = [scans EXCEPT ![w.scan].countChan =
                     Append(@, Len(w.allMatches[Len(w.allMatches)]))]
    /\ workers' = Step(w, [w EXCEPT
           !.pc = IF Len(w.allMatches) = Len(w.chunks) THEN "result"
                  ELSE "match"])
    /\ UNCHANGED << reqBox, eventBox, submitted, pc, request, merger,
                    cancelled, last, slab, engineVars, superVars >>

RECURSIVE Concat(_)
Concat(lists) ==
    IF lists = << >> THEN << >> ELSE Head(lists) \o Concat(Tail(lists))

\* Lines 195-206.
WorkerResult(w) ==
    /\ w.pc = "result"
    /\ Len(scans[w.scan].resultChan) < scans[w.scan].resultCap
    /\ LET sliceMatches == Concat(w.allMatches)
           sorted == IF msort /\ sortable(w.pattern)
                     THEN ByRelevance(sliceMatches) ELSE sliceMatches
       IN scans' = [scans EXCEPT ![w.scan].resultChan =
                        Append(@, [index |-> w.idx, matches |-> sorted])]
    /\ workers' = Step(w, [w EXCEPT !.pc = "done"])
    /\ UNCHANGED << reqBox, eventBox, submitted, pc, request, merger,
                    cancelled, last, slab, engineVars, superVars >>

Scanning == pc \in { "collect", "cancel", "results" }

Running == IF Scanning THEN request.id ELSE 0

\* Line 183: the deferred waitGroup.Done(), the worker's last step.
WorkerDone(w) ==
    /\ w.pc = "done"
    /\ workers' = workers \ {w}
    /\ scans' = Referenced([scans EXCEPT ![w.scan].waitGroup = @ - 1],
                           workers', Running)
    /\ UNCHANGED << reqBox, eventBox, submitted, pc, request, merger,
                    cancelled, last, slab, engineVars, superVars >>

\* --------------------------------------------------------------- supervisor
\* Mutant of PeekCancel: a pending retry cancels the scan as well.
PeekAnyRequest(box) == Peek(box, "reqReset") \/ Peek(box, "reqRetry")

\* Line 226.
PeekCancel(box) == Peek(box, "reqReset")

\* Mutant of Progress: the ratio of the chunks still to be counted.
ProgressLeft(scan, n, numChunks) ==
    [scan |-> scan, count |-> numChunks - n, total |-> numChunks]

\* Line 231: float32(count)/float32(numChunks), kept as the two integers;
\* the event records, beside the ratio, the scan that emitted it.
Progress(scan, n, numChunks) ==
    [scan |-> scan, count |-> n, total |-> numChunks]

\* Lines 218-233: one iteration of the loop over countChan.
ScanCollect ==
    /\ pc = "collect"
    /\ scans[request.id].countChan # << >>
    /\ count' = count + 1
    /\ IF count' = Len(request.chunks)
       THEN /\ pc' = "results"
            /\ scans' = [scans EXCEPT ![request.id].countChan = Tail(@)]
            /\ UNCHANGED eventBox
       ELSE IF PeekCancel(reqBox)
       THEN /\ pc' = "cancel"
            /\ scans' = [scans EXCEPT ![request.id].countChan = Tail(@),
                                      ![request.id].cancelled = TRUE]
            /\ UNCHANGED eventBox
       ELSE /\ pc' = "collect"
            /\ scans' = [scans EXCEPT ![request.id].countChan = Tail(@)]
            /\ \E slow \in BOOLEAN :
                 eventBox' = IF slow
                             THEN BoxSet(eventBox, "EvtSearchProgress",
                                         Progress(request.id, count',
                                                  Len(request.chunks)))
                             ELSE eventBox
    /\ UNCHANGED << reqBox, submitted, request, merger, cancelled, last, slab,
                    workers, engineVars, slices, received, partialResults >>

\* Mutant of WaitReturns: wait() without waitGroup.Wait().
WaitReturnsAtOnce(waitGroup) == TRUE

\* Line 212: waitGroup.Wait() returns.
WaitReturns(waitGroup) == waitGroup = 0

\* Lines 210-214 and 227: wait() returns, scan returns (nil, true).
ScanWait ==
    /\ pc = "cancel"
    /\ WaitReturns(scans[request.id].waitGroup)
    /\ merger' = NilMerger
    /\ cancelled' = TRUE
    /\ pc' = "finish"
    /\ scans' = Referenced(scans, workers, 0)
    /\ slices' = EmptyBox
    /\ count' = 0
    /\ received' = 0
    /\ partialResults' = EmptyBox
    /\ UNCHANGED << reqBox, eventBox, submitted, request, last, slab, workers,
                    engineVars >>

\* Mutant of ResultSlot: results are stored in the order of their arrival.
ArrivalSlot(partialResult, n) == n

\* Line 238: the slot of partialResults a received result is stored in; n
\* results were received before it.
ResultSlot(partialResult, n) == partialResult.index

\* Mutant of Collected: the loop at line 236 ends after one receive.
CollectedFirst(n, numSlices) == n >= 1

\* Line 236: `for range slices`.
Collected(n, numSlices) == n = numSlices

\* Lines 235-240: one receive from resultChan; after the last one the
\* merger is built and scan returns (merger, false).
ScanResults ==
    /\ pc = "results"
    /\ scans[request.id].resultChan # << >>
    /\ LET partialResult == Head(scans[request.id].resultChan)
           results == BoxSet(partialResults,
                             ResultSlot(partialResult, received),
                             partialResult.matches)
           numSlices == Cardinality(DOMAIN slices)
           chan == [scans EXCEPT ![request.id].resultChan = Tail(@)]
       IN IF Collected(received + 1, numSlices)
          THEN /\ \E c \in BOOLEAN :
                    merger' = NewMerger(request, results,
                                  msort /\ sortable(request.pattern), c)
               /\ cancelled' = FALSE
               /\ pc' = "finish"
               /\ scans' = Referenced(chan, workers, 0)
               /\ slices' = EmptyBox
               /\ count' = 0
               /\ received' = 0
               /\ partialResults' = EmptyBox
          ELSE /\ received' = received + 1
               /\ partialResults' = results
               /\ scans' = chan
               /\ UNCHANGED << merger, cancelled, pc, slices, count >>
    /\ UNCHANGED << reqBox, eventBox, submitted, request, last, slab, workers,
                    engineVars >>

\* ----------------------------------------------------------- specification
Next ==
    \/ \E r \in Requests, cancel \in BOOLEAN : Reset(r, cancel)
    \/ Stop
    \/ LoopWait
    \/ LoopProcess
    \/ ScanStart
    \/ \E w \in workers : WorkerMatch(w)
    \/ \E w \in workers : WorkerTick(w)
    \/ \E w \in workers : WorkerResult(w)
    \/ \E w \in workers : WorkerDone(w)
    \/ ScanCollect
    \/ ScanWait
    \/ ScanResults
    \/ LoopFinish

Spec == Init /\ [][Next]_vars

\* ------------------------------------------------------------------ claims
\* The cycle has passed the cache decision of lines 85-113.
Decided == pc \in { "scan", "collect", "cancel", "results", "finish" }

\* C1, as stated: all live workers belong to the same call of scan, and no
\* worker of an earlier scan is scoring while the Loop is in scan.
C1_AllLiveWorkersOfOneScan ==
    /\ \A w1, w2 \in workers : w1.scan = w2.scan
    /\ \A w \in workers :
         (Scanning /\ w.scan # request.id) => w.pc # "match"

\* C1, amended: a worker that does not belong to the call of scan in
\* progress (one of an earlier scan, or any worker when the Loop is not in
\* scan) has sent its partition result of a completed scan and has only its
\* deferred waitGroup.Done() left: it scores no chunk and sends nothing.
C1_EarlierWorkersOnlyFinishing ==
    \A w \in workers :
        (~Scanning \/ w.scan # request.id) =>
            (w.pc = "done" /\ ~scans[w.scan].cancelled
             /\ Len(w.allMatches) = Len(w.chunks))

C1_Witness ==
    /\ Scanning
    /\ \E w \in workers : w.scan # request.id
    /\ \E w \in workers : w.scan = request.id /\ w.pc = "match"

\* C2: scan returns (nil, true) only after the cancellation flag is set and
\* every worker of that scan has returned; a worker whose scan was cancelled
\* is live only while the supervisor of that scan waits for it.
C2_CancelledScanJoinsWorkers ==
    /\ pc = "cancel" => scans[request.id].cancelled
    /\ \A w \in workers :
         scans[w.scan].cancelled => (pc = "cancel" /\ request.id = w.scan)
    /\ (pc = "finish" /\ cancelled) =>
         (merger = NilMerger /\ \A w \in workers : w.scan # request.id)

C2_Witness ==
    pc = "finish" /\ cancelled /\ merger = NilMerger

\* The step that ends a cycle (lines 119-125).
CycleEnds == pc = "finish" /\ pc' = "wait"

\* The step that takes the cache decision of a cycle (lines 85-113).
CycleDecides == pc = "process" /\ pc' # "process"

\* C3: the end of a cancelled cycle leaves the event box and the merger cache
\* as they are; the end of any other cycle publishes a non-nil merger that is
\* the one scan built for the active request or the one the cache held under
\* the request's pattern string; no other step touches EvtSearchFin.
C3_CancelledCyclePublishesNothing ==
    [][ /\ (CycleEnds /\ cancelled) =>
              (eventBox' = eventBox /\ mergerCache' = mergerCache)
        /\ (CycleEnds /\ ~cancelled) =>
              /\ Peek(eventBox', "EvtSearchFin")
              /\ eventBox'["EvtSearchFin"].kind # "nil"
              /\ \/ (~cacheHit /\ eventBox'["EvtSearchFin"].req = request.id)
                 \/ /\ cacheHit
                    /\ Peek(mergerCache, AsString(request.pattern))
                    /\ eventBox'["EvtSearchFin"] =
                           mergerCache[AsString(request.pattern)]
        /\ ~CycleEnds =>
              /\ Peek(eventBox', "EvtSearchFin") = Peek(eventBox, "EvtSearchFin")
              /\ Peek(eventBox, "EvtSearchFin") =>
                     eventBox'["EvtSearchFin"] = eventBox["EvtSearchFin"]
      ]_vars

C3_Witness ==
    /\ pc = "wait"
    /\ last.outcome = "cancelled"
    /\ ~Peek(eventBox, "EvtSearchFin")
    /\ mergerCache = EmptyBox

\* C4: at a wake without a pending quit the request that becomes active is
\* the most recently submitted of the pending ones.
C4_NewestPendingBecomesActive ==
    [][ (pc = "wait" /\ pc' = "process") =>
            \A t \in DOMAIN reqBox : reqBox[t].id <= request'.id ]_vars

\* C5: while the Loop is in scan, the scan takes or follows its
\* cancellation path, or returns cancelled, only with a reqReset pending;
\* a request pending under reqRetry stays pending, unprocessed, until the
\* scan has returned.
C5_OnlyResetCancels ==
    [][ Scanning =>
          /\ (pc' = "cancel" \/ cancelled') => Peek(reqBox, "reqReset")
          /\ Peek(reqBox, "reqRetry") =>
                (Peek(reqBox', "reqRetry") /\ pc' # "process")
      ]_vars

C5_Witness ==
    /\ pc = "finish"
    /\ ~cancelled
    /\ merger.kind = "scan"
    /\ Len(request.chunks) > 1
    /\ Peek(reqBox, "reqRetry")
    /\ Peek(reqBox, "reqQuit")

\* C6 (for a first scan that ran workers and built a cacheable merger): of
\* two requests processed in succession with the same pattern string, item
\* count, sort flag and revision, the first answered by a completed scan, the
\* second is answered from the cache exactly if the two final flags are equal.
C6_SecondCachedIffSameFinal ==
    ( /\ Decided
      /\ last.outcome = "scanned"
      /\ last.cacheable
      /\ ~IsEmpty(last.request.pattern)
      /\ Len(last.request.chunks) > 0
      /\ AsString(last.request.pattern) = AsString(request.pattern)
      /\ CountItems(last.request.chunks) = CountItems(request.chunks)
      /\ last.request.sort = request.sort
      /\ last.request.revision = request.revision )
    => (cacheHit <=> last.request.final = request.final)

\* C7: a request answered with a cached merger has the item count of the
\* request whose scan produced that merger.
C7_CachedMergerOfSameItemCount ==
    (pc = "finish" /\ cacheHit) => merger.count = CountItems(request.chunks)

\* C8: a merger taken from the cache was stored for the request's pattern
\* string and has the request's final flag, so that line 123 leaves the final
\* flag of an already published merger as it is.
C8_ReuseOnlySamePatternAndFinal ==
    (pc = "finish" /\ cacheHit) =>
        /\ merger.query = AsString(request.pattern)
        /\ merger.final = request.final
        /\ Peek(mergerCache, AsString(request.pattern))
        /\ mergerCache[AsString(request.pattern)] = merger

C8_Witness ==
    pc = "finish" /\ cacheHit /\ merger.kind = "scan"

\* C9: a cycle whose request has a revision different from and incompatible
\* with the engine's clears the chunk cache.
C9_IncompatibleRevisionClearsChunks ==
    [][ ( /\ CycleDecides
          /\ request.revision # mrevision
          /\ ~compatible(request.revision, mrevision) )
        => chunkCacheClears' ]_vars

\* C10: a cycle whose request has the engine's revision, or a different but
\* compatible one, does not clear the chunk cache, and outside the cache
\* decision of a cycle nothing clears it.
C10_CompatibleRevisionKeepsChunks ==
    [][ /\ (CycleDecides /\ compatible(request.revision, mrevision))
           => ~chunkCacheClears'
        /\ ~CycleDecides => (chunkCacheClears' => chunkCacheClears) ]_vars

C10_Witness ==
    /\ Decided
    /\ ~chunkCacheClears
    /\ cacheCleared
    /\ request.revision = [major |-> 0, minor |-> 1]
    /\ last.outcome = "none"

\* C11: when the Loop returns to its wait, every cached merger was built for
\* a request with the engine's sort flag and revision; a cycle whose request
\* changes the sort flag or the revision empties the merger cache and looks
\* nothing up; a merger taken from the cache, and every merger published, was
\* built for a request with the sort flag and revision of the active one.
C11_CachedMergersOfCurrentSortAndRevision ==
    [][ /\ pc' = "wait" =>
              \A k \in DOMAIN mergerCache' :
                  /\ mergerCache'[k].sort = msort'
                  /\ mergerCache'[k].revision = mrevision'
        /\ (CycleDecides
            /\ (request.sort # msort \/ request.revision # mrevision)) =>
              (mergerCache' = EmptyBox /\ ~cacheHit')
        /\ (CycleDecides /\ cacheHit') =>
              /\ merger'.sort = request.sort
              /\ merger'.revision = request.revision
        /\ (CycleEnds /\ ~cancelled) =>
              /\ eventBox'["EvtSearchFin"].sort = request.sort
              /\ eventBox'["EvtSearchFin"].revision = request.revision
              /\ request.sort = msort
              /\ request.revision = mrevision
      ]_vars

\* A cycle that changed the sort flag or the revision, after one that cached
\* a merger under the same pattern string and final flag, is about to
\* publish the merger of its own scan.
C11_Witness ==
    /\ pc = "finish"
    /\ cacheCleared
    /\ ~cancelled
    /\ last.outcome = "scanned"
    /\ last.cacheable
    /\ last.request.pattern = request.pattern
    /\ last.request.final = request.final
    /\ CountItems(last.request.chunks) = CountItems(request.chunks)
    /\ mergerCache = EmptyBox
    /\ merger.kind = "scan"
    /\ merger.req = request.id

\* The matches of one slice as its worker sends them: those of its chunks in
\* chunk order, sorted when the engine sorts and the pattern is sortable.
SliceMatches(pattern, chunks, sort) ==
    LET all == Concat([j \in 1..Len(chunks) |-> Match(pattern, chunks[j])])
    IN IF sort /\ sortable(pattern) THEN ByRelevance(all) ELSE all

\* C12: while scan receives the partition results, the results received so
\* far and those waiting in resultChan are of distinct partitions, every one
\* received is stored at its partition index and holds the matches of every
\* chunk of that partition's slice; the list handed to the merger constructor
\* has one entry per slice, at its index, and is a function of the request
\* and the engine's sort flag alone.
C12_ResultsReassembledByIndex ==
    /\ pc = "results" =>
         LET sliced == sliceChunks(request.chunks)
             chan == scans[request.id].resultChan
         IN /\ Cardinality(DOMAIN partialResults) = received
            /\ \A i, j \in DOMAIN chan :
                   i # j => chan[i].index # chan[j].index
            /\ \A i \in DOMAIN chan : chan[i].index \notin DOMAIN partialResults
            /\ \A i \in DOMAIN partialResults :
                   /\ i \in DOMAIN sliced
                   /\ partialResults[i] =
                          SliceMatches(request.pattern, sliced[i], msort)
    /\ (pc = "finish" /\ ~cacheHit /\ merger.kind = "scan") =>
         LET sliced == sliceChunks(request.chunks)
         IN merger.lists =
               [i \in DOMAIN sliced |->
                   SliceMatches(request.pattern, sliced[i], msort)]

\* The result of partition 1 was received before that of partition 0.
C12_Witness ==
    /\ pc = "results"
    /\ received = 1
    /\ DOMAIN partialResults = { 1 }
    /\ Len(partialResults[1]) > 1
    /\ msort

\* ------------------------------------------------------- sliceChunks alone
\* sliceChunks applied to every chunk list of 1..MaxSliceChunks chunks by an
\* engine of 1..MaxSlicePartitions partitions (NewMatcher sizes m.slab by
\* m.partitions).
SliceInit ==
    /\ \E n \in 1..MaxSliceChunks :
         request = [id |-> 1, chunks |-> ChunkList(n),
                    pattern |-> BaseRequest.pattern,
                    final |-> BaseRequest.final, sort |-> BaseRequest.sort,
                    revision |-> BaseRequest.revision]
    /\ \E p \in 1..MaxSlicePartitions : slab = [i \in 0..(p - 1) |-> FALSE]
    /\ pc = "slice"
    /\ slices = EmptyBox
    /\ reqBox = EmptyBox
    /\ eventBox = EmptyBox
    /\ submitted = 1
    /\ msort = BaseRequest.sort
    /\ mrevision = BaseRequest.revision
    /\ mergerCache = EmptyBox
    /\ prevCount = 0
    /\ chunkCacheClears = FALSE
    /\ cacheCleared = FALSE
    /\ cacheHit = FALSE
    /\ merger = NilMerger
    /\ cancelled = FALSE
    /\ last = NoCycle
    /\ scans = EmptyBox
    /\ count = 0
    /\ received = 0
    /\ partialResults = EmptyBox
    /\ workers = {}

\* Line 171, with m.partitions = len(m.slab).
SliceCall ==
    /\ pc = "slice"
    /\ slices' = sliceChunksOf(request.chunks, Cardinality(DOMAIN slab))
    /\ pc' = "sliced"
    /\ UNCHANGED << reqBox, eventBox, submitted, request, merger, cancelled,
                    last, slab, scans, workers, engineVars, count, received,
                    partialResults >>

SliceNext == SliceCall

SliceSpec == SliceInit /\ [][SliceNext]_vars

\* C13: for N >= 1 chunks and P >= 1 partitions the slices sliceChunks
\* returns are numbered 0..k-1 with k = P when N >= P and k = N when N < P,
\* none is empty, every one but the last has N div P chunks (1 when N < P),
\* and their concatenation in index order is the chunk list.
C13_SlicesCoverChunksInOrder ==
    pc = "sliced" =>
        LET N == Len(request.chunks)
            P == Cardinality(DOMAIN slab)
            k == IF N >= P THEN P ELSE N
        IN /\ DOMAIN slices = 0..(k - 1)
           /\ \A i \in DOMAIN slices : Len(slices[i]) >= 1
           /\ \A i \in DOMAIN slices :
                 i # k - 1 =>
                    Len(slices[i]) = (IF N < P THEN 1 ELSE N \div P)
           /\ Concat([j \in 1..k |-> slices[j - 1]]) = request.chunks

\* More chunks than partitions, and a remainder for the last slice.
C13_Witness ==
    /\ pc = "sliced"
    /\ Len(request.chunks) > Cardinality(DOMAIN slab)
    /\ Cardinality(DOMAIN slab) > 1
    /\ Len(slices[Cardinality(DOMAIN slab) - 1]) > Len(slices[0]) + 1

\* A step that emits a progress event.
EmitsProgress ==
    /\ Peek(eventBox', "EvtSearchProgress")
    /\ (Peek(eventBox, "EvtSearchProgress") =>
           eventBox'["EvtSearchProgress"] # eventBox["EvtSearchProgress"])

\* C14, as stated: when all chunks of a scan are counted, the last progress
\* ratio the scan has emitted is 1.0.
C14_ProgressEndsAtOne ==
    ( /\ pc = "results"
      /\ Peek(eventBox, "EvtSearchProgress")
      /\ eventBox["EvtSearchProgress"].scan = request.id )
    => eventBox["EvtSearchProgress"].count = eventBox["EvtSearchProgress"].total

\* C14, amended: a progress event is emitted by the supervisor loop only,
\* with the ratio count/numChunks of the chunks counted so far, which is
\* above 0 and below 1 and above the ratio the same scan emitted before; the
\* scan leaves the loop, and builds the merger that is published, only with
\* all chunks counted, for which no progress event is emitted.
C14_ProgressIncreasesBelowOne ==
    [][ /\ EmitsProgress =>
              LET new == eventBox'["EvtSearchProgress"]
              IN /\ pc = "collect" /\ pc' = "collect"
                 /\ new.scan = request.id
                 /\ new.count = count'
                 /\ new.total = Len(request.chunks)
                 /\ 0 < new.count /\ new.count < new.total
                 /\ ( /\ Peek(eventBox, "EvtSearchProgress")
                      /\ eventBox["EvtSearchProgress"].scan = request.id )
                    => eventBox["EvtSearchProgress"].count * new.total
                          < new.count * eventBox["EvtSearchProgress"].total
        /\ (pc = "collect" /\ pc' # "collect") =>
              /\ eventBox' = eventBox
              /\ pc' = "results" <=> count' = Len(request.chunks)
        /\ (pc # "finish" /\ pc' = "finish" /\ ~cacheHit'
            /\ merger'.kind = "scan") => pc = "results"
      ]_vars

\* All chunks of a scan are counted and the last ratio it emitted is 2/3.
C14_Witness ==
    /\ pc = "results"
    /\ Peek(eventBox, "EvtSearchProgress")
    /\ eventBox["EvtSearchProgress"] = Progress(request.id, 2, 3)

\* C15, as stated, for a scan of two or more chunks (a reset pending when
\* such a scan returns was raised after its workers were started: one
\* raised before is seen when the first tick is counted): a scan that
\* returns with a reset pending returns cancelled, without a merger.
C15_PendingResetCancelsScan ==
    [][ ( /\ Scanning
          /\ pc' = "finish"
          /\ Len(request.chunks) >= 2
          /\ Peek(reqBox, "reqReset") )
        => (cancelled' /\ merger' = NilMerger) ]_vars

\* C15, amended: the supervisor takes the cancellation path exactly when it
\* has counted a tick that is not the last one of the scan and finds a reset
\* pending; it then sets the flag and the scan returns cancelled, without a
\* merger, once its workers have returned. A reset that is raised later (or
\* during a scan of one chunk) leaves the scan to complete. Once the flag is
\* set, a worker's next scoring call is its last step but the deferred
\* Done: each worker starts at most one further scoring call.
C15_ResetSeenAtTickCancels ==
    [][ /\ (pc = "collect" /\ count' # count) =>
              /\ pc' = "cancel" <=>
                    ( /\ count' < Len(request.chunks)
                      /\ Peek(reqBox, "reqReset") )
              /\ pc' = "cancel" => scans'[request.id].cancelled
              /\ pc' # "cancel" => ~scans'[request.id].cancelled
        /\ (pc = "cancel" /\ pc' # "cancel") =>
              /\ pc' = "finish" /\ cancelled' /\ merger' = NilMerger
              /\ \A w \in workers' : w.scan # request.id
        /\ \A w \in workers :
              scans[w.scan].cancelled =>
                 \A w2 \in workers' :
                    (w2.scan = w.scan /\ w2.idx = w.idx /\ w2 # w) =>
                       /\ w.pc # "done"
                       /\ w.pc = "match" => w2.pc = "done"
                       /\ w2.pc = "match" =>
                             Len(w2.allMatches) = Len(w.allMatches)
      ]_vars

\* The flag is set and a worker that has sent a tick is about to start its
\* one further scoring call.
C15_Witness ==
    /\ pc = "cancel"
    /\ \E w \in workers :
         /\ w.scan = request.id
         /\ w.pc = "match"
         /\ Len(w.allMatches) >= 1

\* C16: a wake with reqQuit pending ends the Loop, whatever else is pending
\* and in whatever order the callback visits the pending kinds; once the
\* Loop has ended it stays ended, starts no scan and no worker, and neither
\* the event box nor the merger cache changes.
C16_QuitEndsLoop ==
    [][ /\ (pc = "wait" /\ pc' # "wait" /\ Peek(reqBox, "reqQuit")) =>
              pc' = "stopped"
        /\ pc = "stopped" =>
              /\ pc' = "stopped"
              /\ eventBox' = eventBox
              /\ mergerCache' = mergerCache
              /\ merger' = merger
              /\ workers' \subseteq workers
              /\ \A w \in workers : w.pc = "done"
      ]_vars

\* The Loop has ended at a wake at which two requests were pending with the
\* quit event, one of them visited before it.
C16_Witness ==
    /\ pc = "stopped"
    /\ request # NoRequest
    /\ Peek(reqBox, "reqRetry")
    /\ Peek(reqBox, "reqReset")
    /\ ~Peek(eventBox, "EvtSearchFin")

\* C17: scan of a request without chunks returns the empty merger tagged
\* with the request's revision, also when the pattern is empty; scan of a
\* request with chunks and an empty pattern returns the pass-through merger
\* over all its chunks. Both return uncancelled in the step that enters scan,
\* whatever is pending in reqBox, start no worker, create no channel, touch
\* no slab slot and emit no event.
C17_FastPathsReturnAtOnce ==
    [][ ( /\ pc = "scan" /\ pc' # "scan"
          /\ (Len(request.chunks) = 0 \/ IsEmpty(request.pattern)) )
        => /\ pc' = "finish"
           /\ ~cancelled'
           /\ ~cacheHit'
           /\ workers' = workers
           /\ scans' = scans
           /\ slab' = slab
           /\ eventBox' = eventBox
           /\ reqBox' = reqBox
           /\ merger'.req = request.id
           /\ merger'.revision = request.revision
           /\ IF Len(request.chunks) = 0
              THEN merger'.kind = "empty" /\ merger'.lists = << >>
              ELSE merger'.kind = "pass"
                   /\ merger'.lists = << request.chunks >>
      ]_vars

\* scan has returned the empty merger for a request without chunks and with
\* an empty pattern while a reset is pending.
C17_Witness ==
    /\ pc = "finish"
    /\ ~cancelled
    /\ ~cacheHit
    /\ merger.kind = "empty"
    /\ merger.req = request.id
    /\ IsEmpty(request.pattern)
    /\ Peek(reqBox, "reqReset")

\* C18: every live worker holds the slab slot of its partition index, which
\* is allocated; of two live workers that hold the same slot one has made
\* its last scoring call and has only its deferred Done left, so that no
\* slot is used by two workers at a time.
C18_SlabSlotOfOneScoringWorker ==
    /\ \A w \in workers :
         /\ w.slot = w.idx
         /\ w.slot \in DOMAIN slab
         /\ slab[w.slot]
    /\ \A w1, w2 \in workers :
         (w1 # w2 /\ w1.slot = w2.slot) =>
            /\ w1.scan # w2.scan
            /\ w1.pc = "done" \/ w2.pc = "done"

\* A worker of a later scan scores with the slot a worker of an earlier
\* scan, not yet returned, has scored with.
C18_Witness ==
    \E w1, w2 \in workers :
        /\ w1.slot = w2.slot
        /\ w1.scan < w2.scan
        /\ w1.pc = "done"
        /\ w2.pc = "match"
        /\ Len(w2.allMatches) >= 1

\* -------------------------------------------------------------- scan alone
\* One call of scan with its callers: the Loop has taken the cache decision
\* for the first request, any one of Requests, and calls scan, while Reset
\* and Stop are called at any time. The Go scheduler runs every goroutine
\* that can take a step: the Loop goroutine, in scan, and every worker.
ScanInit ==
    \E r \in Requests, sort0 \in BOOLEAN :
        LET changed == SortOrRevisionChanged(r, sort0, BaseRequest.revision)
        IN /\ request = [id |-> 1, chunks |-> r.chunks,
                         pattern |-> r.pattern, final |-> r.final,
                         sort |-> r.sort, revision |-> r.revision]
           /\ submitted = 1
           /\ pc = "scan"
           /\ reqBox = EmptyBox
           /\ eventBox = EmptyBox
           /\ msort = r.sort
           /\ mrevision = r.revision
           /\ mergerCache = EmptyBox
           /\ prevCount = IF changed THEN 0 ELSE CountItems(r.chunks)
           /\ chunkCacheClears =
                  (changed /\ ClearsChunkCache(r, BaseRequest.revision))
           /\ cacheCleared = changed
           /\ cacheHit = FALSE
           /\ merger = NilMerger
           /\ cancelled = FALSE
           /\ last = NoCycle
           /\ slab = [i \in 0..(NumPartitions - 1) |-> FALSE]
           /\ scans = EmptyBox
           /\ slices = EmptyBox
           /\ count = 0
           /\ received = 0
           /\ partialResults = EmptyBox
           /\ workers = {}

ScanNext ==
    \/ \E r \in Requests, cancel \in BOOLEAN : Reset(r, cancel)
    \/ Stop
    \/ ScanStart
    \/ \E w \in workers : WorkerMatch(w)
    \/ \E w \in workers : WorkerTick(w)
    \/ \E w \in workers : WorkerResult(w)
    \/ \E w \in workers : WorkerDone(w)
    \/ ScanCollect
    \/ ScanWait
    \/ ScanResults

ScanFairness ==
    /\ WF_vars(ScanStart)
    /\ WF_vars(ScanCollect)
    /\ WF_vars(ScanWait)
    /\ WF_vars(ScanResults)
    /\ WF_vars(\E w \in workers : WorkerMatch(w))
    /\ WF_vars(\E w \in workers : WorkerTick(w))
    /\ WF_vars(\E w \in workers : WorkerResult(w))
    /\ WF_vars(\E w \in workers : WorkerDone(w))

ScanSpec == ScanInit /\ [][ScanNext]_vars /\ ScanFairness

\* C19: a worker about to send a tick or its result finds room in the
\* channel, also after the supervisor has stopped receiving; the supervisor
\* leaves its loop uncancelled with exactly numChunks ticks counted and none
\* left in the channel; every call of scan returns, completed or cancelled,
\* and after it every worker.
C19_ScanTerminates ==
    /\ [] ( /\ \A w \in workers :
                 /\ w.pc = "tick" =>
                       Len(scans[w.scan].countChan) < scans[w.scan].countCap
                 /\ w.pc = "result" =>
                       Len(scans[w.scan].resultChan) < scans[w.scan].resultCap
            /\ pc = "results" =>
                 /\ count = Len(request.chunks)
                 /\ scans[request.id].countChan = << >> )
    /\ (pc = "scan") ~> (pc = "finish" /\ workers = {})

\* The supervisor waits for the workers of a cancelled scan, no longer
\* receiving, and a worker is about to send a tick behind one that is still
\* in the channel.
C19_Witness ==
    /\ pc = "cancel"
    /\ \E w \in workers :
         /\ w.pc = "tick"
         /\ Len(scans[w.scan].countChan) >= 1

\* C20, the part a finite run decides: as long as Stop has not been called,
\* the most recently submitted request is pending in reqBox, or is the
\* Loop's active request, or was the request of the Loop's last cycle and
\* that cycle published a merger; it is never dropped unanswered.
C20_LastRequestNotDropped ==
    (submitted > 0 /\ ~Peek(reqBox, "reqQuit") /\ pc # "stopped") =>
        \/ \E t \in DOMAIN reqBox : reqBox[t].id = submitted
        \/ request.id = submitted
        \/ last.request.id = submitted /\ last.outcome # "cancelled"

====
